---- MODULE Spec2Model ----
(***************************************************************************)
(* Model of the website availability checker of opac-airflow               *)
(* (airflow/dags/operations/check_website_operations.py): check_uri_list,  *)
(* access_uri, requests_get and wait_and_retry_to_access_uri (Spec); of    *)
(* the DAG task of airflow/dags/check_website.py, of check_website_uri_list *)
(* and concat_website_url_and_uri_list_items (SpecTask, SpecConcat); and   *)
(* of get_sps_packages (SpecSps).                                          *)
(*                                                                         *)
(* One run of check_uri_list over a list of URIs is modelled step by step: *)
(* the first request of a URI, each time.sleep of the retry loop, each     *)
(* retry request, and the test-and-append of check_uri_list.               *)
(*                                                                         *)
(* A value returned by the request function is a record                    *)
(*   [cls |-> ..., status_code |-> ...]                                    *)
(* cls = "Response": a requests.Response, what requests.head/requests.get  *)
(*       return.  Its truth value is Response.__bool__, i.e. Response.ok:  *)
(*       true iff status_code < 400.                                       *)
(* cls = "object":   a plain object with a status_code attribute, what a   *)
(*       substituted request function returns (the `function` parameter,   *)
(*       or requests.head patched by a test double).  Always truthy.       *)
(* cls = "False":    the value False that requests_get returns after it    *)
(*       caught a connection error.  It has no status_code attribute.      *)
(***************************************************************************)
EXTENDS Integers, Sequences, FiniteSets, TLC

\* ------------------------------------------------------------------ bounds
\* Longest uri_list_items given to check_uri_list.
MaxUris == 3

\* The URIs the input list is drawn from (duplicates allowed in the list).
Uris == {"http://x/a", "http://x/b"}

\* ------------------------------------------------------- program constants
\* access_uri line 275, wait_and_retry_to_access_uri line 315.
OK_STATUS_No302 == {200, 301}
OK_STATUS == {200, 301, 302}

\* access_uri line 278, wait_and_retry_to_access_uri line 312.
RETRY_STATUS == {429, 500, 502, 503, 504}

\* retry_after(), line 290.
retry_after_Repeat == <<5, 10, 20, 40, 80, 160, 320, 320>>
retry_after == <<5, 10, 20, 40, 80, 160, 320, 640>>

\* The status codes a server answers with in the model: those the code
\* names, and two it does not name, one below 400 (a truthy
\* requests.Response) and one from 400 up (a falsy one).
Statuses == {200, 301, 302, 429, 500, 502, 503, 504, 204, 404}

\* What `requests.head` is bound to during the run: the library function,
\* or a substituted callable returning plain objects (likewise requests.get
\* when get_webpage_content is the caller).
Functions == {"requests.head", "substitute"}

\* The value False (requests_get line 263).
False == [cls |-> "False", status_code |-> 0]

ResponseOf(function, status) ==
    [cls |-> IF function = "requests.head" THEN "Response" ELSE "object",
     status_code |-> status]

\* What one call function(uri, timeout=10) can do: return a response, or
\* raise a connection error ("ConnectionError").
Outcomes(function) ==
    {[raises |-> FALSE, response |-> ResponseOf(function, s)] : s \in Statuses}
      \cup {[raises |-> TRUE, response |-> False]}

\* Python truth value of what requests_get returned (`if not response`,
\* lines 272 and 308; `if not access_uri(uri)`, line 246).
Truthy(r) ==
    CASE r.cls = "False" -> FALSE
      [] r.cls = "Response" -> r.status_code < 400
      [] OTHER -> TRUE

\* `response.status_code`: False has no such attribute (AttributeError).
HasStatusCode(r) == r.cls # "False"

\* ------------------------------------------------------------- log entries
LogTransport(uri) ==
    [level |-> "error", event |-> "connection", uri |-> uri,
     status_code |-> 0, secs |-> 0]
LogStatus(uri, code) ==
    [level |-> "error", event |-> "status", uri |-> uri,
     status_code |-> code, secs |-> 0]
LogRetry(uri, t) ==
    [level |-> "info", event |-> "retry", uri |-> uri,
     status_code |-> 0, secs |-> t]
LogFinal(uri, code, total) ==
    [level |-> "info", event |-> "final", uri |-> uri,
     status_code |-> code, secs |-> total]

\* requests_get, lines 251-265: the value returned and what it logs.
requests_get(out) == IF out.raises THEN False ELSE out.response
requests_get_log(uri, out) == IF out.raises THEN <<LogTransport(uri)>> ELSE <<>>

\* `function = function or requests.head`, lines 253, 270 and 298; "None"
\* is the default of the parameter.
function_or_head(f) == IF f = "None" THEN "requests.head" ELSE f

\* requests_get, line 254: function(uri, timeout=10).
timeout == 10
requests_get_call(f) == [function |-> function_or_head(f), timeout |-> timeout]

\* access_uri, line 279: the function given to wait_and_retry_to_access_uri.
retry_function_None(f) == "None"
retry_function(f) == f

VARIABLES
    function,         \* what requests.head is bound to in this run
    uri_list_items,   \* argument of check_uri_list
    i,                \* position of the `for uri in uri_list_items` loop
    failures,         \* check_uri_list: failures
    pc,               \* position in the code
    k,                \* wait_and_retry_to_access_uri: index of t in retry_after()
    total_secs,       \* wait_and_retry_to_access_uri: total_secs
    available,        \* wait_and_retry_to_access_uri: available
    response,         \* the last value returned by requests_get
    ret,              \* what access_uri returned for the current URI
    result,           \* what check_uri_list returned
    \* history of the current access_uri call
    first,            \* value returned by the first requests_get of this URI
    reqAt,            \* per request of this URI: seconds slept before it
    slept,            \* the arguments of time.sleep for this URI, in order
    allTransient,     \* every response of this URI so far had a RETRY_STATUS
    log,              \* log entries emitted for this URI, in order
    \* history of the run
    probed,           \* positions of uri_list_items that were requested
    falsy,            \* positions for which access_uri returned a falsy value
    reported,         \* per entry of failures: the position it was appended for
    terminal,         \* positions for which access_uri has returned
    \* the caller of access_uri and the calls of the request function
    caller,           \* "check_uri_list" or "get_webpage_content"
    function_arg,     \* the argument `function` given to access_uri
    content,          \* what get_webpage_content returned, "" before it did
    requested         \* per request of this URI: the function called and
                      \* the timeout given to it

proberVars == <<function, uri_list_items, i, failures, pc, k, total_secs,
                available, response, ret, result, first, reqAt, slept,
                allTransient, log, probed, falsy, reported, terminal,
                caller, function_arg, content, requested>>

\* The DAG task check_website_uri_list (check_website.py) and the function
\* check_website_uri_list of check_website_operations.py.
VARIABLES
    entry,            \* what was called: "dag", "ops", "concat" or "none"
    tpc,              \* position in the task
    WEBSITE_URL_LIST,            \* Airflow Variable: [set, value]
    GERAPADRAO_ID_FOR_URI_LIST,  \* Airflow Variable: [set, value]
    xc_files,         \* XC directory: per id, uri_list_<id>.lst
    proc_files,       \* PROC directory of the DagRun: per id, uri_list_<id>.lst
    website_url_list, \* _website_url_list / the argument website_url_list
    gerapadrao_id_items, \* check_website.py: gerapadrao_id_items
    g,                \* position of the `for gerapadrao_id in ...` loop
    file_path,        \* the id whose PROC path is _uri_list_file_path
    lines_read,       \* what read_file returned
    website_uri_list, \* what concat_website_url_and_uri_list_items returned
    exc,              \* the exception that ended the call, "" if none
    logged,           \* check_website_uri_list: the URIs of the final log entry
    \* history of the call
    proc0,            \* proc_files when the call began
    read_ids,         \* ids whose PROC file was read, in order
    copied_ids        \* ids whose file was copied from XC to PROC, in order

taskVars == <<entry, tpc, WEBSITE_URL_LIST, GERAPADRAO_ID_FOR_URI_LIST,
              xc_files, proc_files, website_url_list, gerapadrao_id_items, g,
              file_path, lines_read, website_uri_list, exc, logged, proc0,
              read_ids, copied_ids>>

\* get_sps_packages (pre_sync_documents_to_kernel_operations.py).
VARIABLES
    scilista,         \* the lines of the scilista file
    xc_dir,           \* names of the files in the XC directory
    proc_dir,         \* names of the files in the PROC directory
    sps_packages_list, \* get_sps_packages: sps_packages_list
    spc,              \* position in get_sps_packages
    line,             \* position of the `for scilista_item in ...` loop
    sources,          \* what is left of sorted(xc_dir_path.glob(...))
    moved,            \* names given to shutil.move, in order
    xc_dir0,          \* xc_dir when get_sps_packages was called
    proc_dir0,        \* proc_dir when get_sps_packages was called
    earlier           \* what the earlier calls of get_sps_packages returned

spsVars == <<scilista, xc_dir, proc_dir, sps_packages_list, spc, line,
             sources, moved, xc_dir0, proc_dir0, earlier>>

vars == <<proberVars, taskVars, spsVars>>

RECURSIVE SeqsUpTo(_)
SeqsUpTo(n) ==
    IF n = 0 THEN {<<>>}
    ELSE LET S == SeqsUpTo(n - 1)
         IN S \cup {Append(s, u) : s \in {t \in S : Len(t) = n - 1}, u \in Uris}

\* A file that does not exist, and a file with the given lines.
NoFile == [exists |-> FALSE, lines |-> <<>>]
FileOf(lines) == [exists |-> TRUE, lines |-> lines]

\* An Airflow Variable that is not set, and one set to a value.
Unset == [set |-> FALSE, value |-> <<>>]
SetTo(v) == [set |-> TRUE, value |-> v]

\* The execution identifiers (gerapadrao ids) of the model.
Ids == {"id1", "id2"}

\* Nothing of the task has been called.
TaskIdle ==
    /\ entry = "none"
    /\ tpc = "idle"
    /\ WEBSITE_URL_LIST = Unset
    /\ GERAPADRAO_ID_FOR_URI_LIST = Unset
    /\ xc_files = [d \in Ids |-> NoFile]
    /\ proc_files = [d \in Ids |-> NoFile]
    /\ website_url_list = <<>>
    /\ gerapadrao_id_items = <<>>
    /\ g = 1
    /\ file_path = ""
    /\ lines_read = <<>>
    /\ website_uri_list = <<>>
    /\ exc = ""
    /\ logged = <<>>
    /\ proc0 = proc_files
    /\ read_ids = <<>>
    /\ copied_ids = <<>>

\* get_sps_packages has not been called.
SpsIdle ==
    /\ scilista = <<>>
    /\ xc_dir = {}
    /\ proc_dir = {}
    /\ sps_packages_list = <<>>
    /\ spc = "idle"
    /\ line = 1
    /\ sources = <<>>
    /\ moved = <<>>
    /\ xc_dir0 = {}
    /\ proc_dir0 = {}
    /\ earlier = <<>>

Init ==
    /\ TaskIdle
    /\ SpsIdle
    /\ function \in Functions
    /\ uri_list_items \in SeqsUpTo(MaxUris)
    /\ i = 1
    /\ failures = <<>>
    /\ pc = "check_uri_list"
    /\ k = 0
    /\ total_secs = 0
    /\ available = False
    /\ response = False
    /\ ret = False
    /\ result = <<>>
    /\ first = False
    /\ reqAt = <<>>
    /\ slept = <<>>
    /\ allTransient = TRUE
    /\ log = <<>>
    /\ probed = {}
    /\ falsy = {}
    /\ reported = <<>>
    /\ terminal = {}
    /\ caller = "check_uri_list"
    /\ function_arg = "None"
    /\ content = ""
    /\ requested = <<>>


RECURSIVE Sum(_)
Sum(s) == IF s = <<>> THEN 0 ELSE s[1] + Sum(Tail(s))

\* ------------------------------------------------------------- access_uri
\* access_uri, lines 272-286: what is done with the first response.
\*   "false"  line 273  return False
\*   "ok"     line 276  return response
\*   "retry"  line 279  return wait_and_retry_to_access_uri(uri, function)
\*   "error"  lines 281-286  Logger.error(...); return False
access_uri_branch_RetryOnFalse(r) ==
    IF ~Truthy(r) THEN "retry"
    ELSE IF r.status_code \in OK_STATUS THEN "ok"
    ELSE IF r.status_code \in RETRY_STATUS THEN "retry"
    ELSE "error"
access_uri_branch(r) ==
    IF ~Truthy(r) THEN "false"
    ELSE IF r.status_code \in OK_STATUS THEN "ok"
    ELSE IF r.status_code \in RETRY_STATUS THEN "retry"
    ELSE "error"

\* wait_and_retry_to_access_uri, lines 308-317: what is done with the
\* response of a retry.
\*   "false"     lines 309-310  available = False; break
\*   "continue"  line 313
\*   "ok"        lines 316-317  available = response; break
\*   "break"     line 317
retry_branch_ContinueOnOther(r) ==
    IF ~Truthy(r) THEN "false"
    ELSE IF r.status_code \in OK_STATUS THEN "ok"
    ELSE "continue"
retry_branch(r) ==
    IF ~Truthy(r) THEN "false"
    ELSE IF r.status_code \in RETRY_STATUS THEN "continue"
    ELSE IF r.status_code \in OK_STATUS THEN "ok"
    ELSE "break"

\* wait_and_retry_to_access_uri, line 303: total_secs += t.
total_secs_plus_Overwrite(total, t) == t
total_secs_plus(total, t) == total + t

\* check_uri_list, line 245: `for uri in uri_list_items` takes the item
\* after the one at position n.
next_item_Skip(n) == n + 2
next_item(n) == n + 1

\* check_uri_list, line 246: `if not access_uri(uri)`.
is_failure_Inverted(r) == Truthy(r)
is_failure(r) == ~Truthy(r)

\* access_uri, lines 268-286, up to its return or to the entry of
\* wait_and_retry_to_access_uri (lines 298-300).
AccessUri ==
    /\ pc = "check_uri_list"
    /\ i <= Len(uri_list_items)
    /\ \E out \in Outcomes(function) :
         LET uri == uri_list_items[i]
             r == requests_get(out)
             b == access_uri_branch(r)
         IN /\ response' = r
            /\ first' = r
            /\ reqAt' = <<0>>
            /\ slept' = <<>>
            /\ allTransient' = (~out.raises /\ r.status_code \in RETRY_STATUS)
            /\ probed' = probed \cup {i}
            /\ total_secs' = 0
            /\ available' = False
            /\ log' = requests_get_log(uri, out) \o
                        (IF b = "error" THEN <<LogStatus(uri, r.status_code)>>
                         ELSE <<>>)
            /\ ret' = IF b = "ok" THEN r ELSE False
            /\ k' = IF b = "retry" THEN 1 ELSE 0
            /\ pc' = IF b = "retry" THEN "sleep" ELSE "access_uri_returned"
            /\ falsy' = IF b # "retry" /\ ~Truthy(ret') THEN falsy \cup {i}
                         ELSE falsy
            /\ terminal' = IF b # "retry" THEN terminal \cup {i} ELSE terminal
    /\ requested' = <<requests_get_call(function_or_head(function_arg))>>
    /\ UNCHANGED <<function, uri_list_items, i, failures, result, reported>>
    /\ UNCHANGED <<caller, function_arg, content>>
    /\ UNCHANGED <<taskVars, spsVars>>

\* wait_and_retry_to_access_uri, lines 301-304: log, total_secs += t, sleep.
Sleep ==
    /\ pc = "sleep"
    /\ LET t == retry_after[k]
       IN /\ log' = Append(log, LogRetry(uri_list_items[i], t))
          /\ total_secs' = total_secs_plus(total_secs, t)
          /\ slept' = Append(slept, t)
    /\ pc' = "request"
    /\ UNCHANGED <<function, uri_list_items, i, failures, k, available,
                   response, ret, result, first, reqAt, allTransient,
                   probed, falsy, reported, terminal>>
    /\ UNCHANGED <<caller, function_arg, content, requested>>
    /\ UNCHANGED <<taskVars, spsVars>>

\* wait_and_retry_to_access_uri, lines 306-325: the retry request, the
\* decision on its response and, when the loop ends, the final log entry
\* and the return.  `response.status_code` of line 322 raises
\* AttributeError when response is False.
RetryRequest ==
    /\ pc = "request"
    /\ \E out \in Outcomes(function) :
         LET uri == uri_list_items[i]
             r == requests_get(out)
             b == retry_branch(r)
             again == b = "continue" /\ k < Len(retry_after)
             avail == IF b = "ok" THEN r ELSE IF b = "false" THEN False
                      ELSE available
         IN /\ response' = r
            /\ reqAt' = Append(reqAt, Sum(slept))
            /\ allTransient' = (allTransient /\ ~out.raises
                                  /\ r.status_code \in RETRY_STATUS)
            /\ available' = avail
            /\ IF again
               THEN /\ k' = k + 1
                    /\ pc' = "sleep"
                    /\ log' = log \o requests_get_log(uri, out)
                    /\ UNCHANGED <<ret, falsy, terminal>>
               ELSE /\ k' = k
                    /\ IF HasStatusCode(r)
                       THEN /\ log' = log \o requests_get_log(uri, out) \o
                                   <<LogFinal(uri, r.status_code, total_secs)>>
                            /\ ret' = avail
                            /\ falsy' = IF ~Truthy(avail) THEN falsy \cup {i}
                                         ELSE falsy
                            /\ terminal' = terminal \cup {i}
                            /\ pc' = "access_uri_returned"
                       ELSE /\ log' = log \o requests_get_log(uri, out)
                            /\ UNCHANGED <<ret, falsy, terminal>>
                            /\ pc' = "raised"
    /\ requested' =
         Append(requested,
                requests_get_call(
                  function_or_head(retry_function(function_or_head(function_arg)))))
    /\ UNCHANGED <<function, uri_list_items, i, failures, total_secs, result,
                   first, slept, probed, reported>>
    /\ UNCHANGED <<caller, function_arg, content>>
    /\ UNCHANGED <<taskVars, spsVars>>

\* check_uri_list, lines 246-247: test what access_uri returned, append the
\* URI to failures, go to the next URI.
CheckResult ==
    /\ pc = "access_uri_returned"
    /\ caller = "check_uri_list"
    /\ IF is_failure(ret)
       THEN /\ failures' = Append(failures, uri_list_items[i])
            /\ reported' = Append(reported, i)
       ELSE UNCHANGED <<failures, reported>>
    /\ i' = next_item(i)
    /\ pc' = "check_uri_list"
    /\ UNCHANGED <<function, uri_list_items, k, total_secs, available,
                   response, ret, result, first, reqAt, slept, allTransient,
                   log, probed, falsy, terminal>>
    /\ UNCHANGED <<caller, function_arg, content, requested>>
    /\ UNCHANGED <<taskVars, spsVars>>

\* check_uri_list, line 248: return failures.
Return ==
    /\ pc = "check_uri_list"
    /\ i > Len(uri_list_items)
    /\ result' = failures
    /\ pc' = "returned"
    /\ UNCHANGED <<function, uri_list_items, i, failures, k, total_secs,
                   available, response, ret, first, reqAt, slept,
                   allTransient, log, probed, falsy, reported, terminal>>
    /\ UNCHANGED <<caller, function_arg, content, requested>>
    /\ UNCHANGED <<taskVars, spsVars>>

Next == AccessUri \/ Sleep \/ RetryRequest \/ CheckResult \/ Return

Spec == Init /\ [][Next]_vars

\* get_webpage_content, lines 160-163: access_uri(uri, requests.get) has
\* returned; the text of the response is returned, or None.
GetWebpageContent ==
    /\ pc = "access_uri_returned"
    /\ caller = "get_webpage_content"
    /\ content' = IF Truthy(ret) THEN "response.text" ELSE "None"
    /\ pc' = "content_returned"
    /\ UNCHANGED <<function, uri_list_items, i, failures, k, total_secs,
                   available, response, ret, result, first, reqAt, slept,
                   allTransient, log, probed, falsy, reported, terminal>>
    /\ UNCHANGED <<caller, function_arg, requested>>
    /\ UNCHANGED <<taskVars, spsVars>>

\* get_webpage_content(uri) is called: the list holds its one URI, and pc
\* is at the call of access_uri.
InitContent ==
    /\ TaskIdle
    /\ SpsIdle
    /\ function \in Functions
    /\ uri_list_items \in {<<u>> : u \in Uris}
    /\ i = 1
    /\ failures = <<>>
    /\ pc = "check_uri_list"
    /\ k = 0
    /\ total_secs = 0
    /\ available = False
    /\ response = False
    /\ ret = False
    /\ result = <<>>
    /\ first = False
    /\ reqAt = <<>>
    /\ slept = <<>>
    /\ allTransient = TRUE
    /\ log = <<>>
    /\ probed = {}
    /\ falsy = {}
    /\ reported = <<>>
    /\ terminal = {}
    /\ caller = "get_webpage_content"
    /\ function_arg = "requests.get"
    /\ content = ""
    /\ requested = <<>>

\* A call of check_uri_list or a call of get_webpage_content.
InitAccess == Init \/ InitContent

NextAccess ==
    \/ AccessUri \/ Sleep \/ RetryRequest \/ CheckResult \/ Return
    \/ GetWebpageContent

SpecAccess == InitAccess /\ [][NextAccess]_vars

\* The same run when every request returns and every time.sleep ends: the
\* code is sequential, so a step that can be taken is taken.
SpecLive == Init /\ [][Next]_vars /\ WF_vars(Next)

\* ===================================================== the checking task
\* Longest website_url_list and longest list of lines given to
\* concat_website_url_and_uri_list_items on its own.
MaxBases == 2
MaxLines == 3

BaseUrls == {"http://x", "http://y"}

\* Lines of a URI list file as read_file returns them: relative URIs, the
\* empty line and a line holding one space.
RelativeUris == {"/a", "/b", "", " "}

RECURSIVE SeqsOver(_, _)
SeqsOver(S, n) ==
    IF n = 0 THEN {<<>>}
    ELSE LET P == SeqsOver(S, n - 1)
         IN P \cup {Append(q, x) : q \in {t \in P : Len(t) = n - 1}, x \in S}

\* What the task is given: the values of the Airflow Variables and the
\* content of the URI list files.
TaskWebsiteUrlLists == {<<>>, <<"http://x">>, <<"http://x", "http://y">>}
TaskIdLists == {<<>>, <<"id1">>, <<"id2">>, <<"id1", "id2">>}
TaskFiles == {NoFile, FileOf(<<"/a", "/b">>), FileOf(<<"/b", "", "/a">>)}

\* Variable.get(name, default_var=[], deserialize_json=True).
VariableGet(v) == IF v.set THEN v.value ELSE <<>>

\* `if not website_url_list` / `if not _website_url_list`
\* (check_website_operations.py line 200, check_website.py line 73).
no_website_url_Never(l) == FALSE
no_website_url(l) == l = <<>>

\* get_uri_list_file_path, line 51: `if not _uri_list_file_path.is_file()`.
must_copy_Always(f) == TRUE
must_copy(f) == ~f.exists

\* check_website.py, line 83: `for gerapadrao_id in gerapadrao_id_items` has
\* no item left after position n - 1.
loop_ended_Early(n, items) == TRUE
loop_ended(n, items) == n > Len(items)

\* concat_website_url_and_uri_list_items, lines 236-238: the inner loop.
RECURSIVE concat_for_uris(_, _)
concat_for_uris(website_url, items) ==
    IF items = <<>> THEN <<>>
    ELSE (IF Head(items) # "" THEN <<website_url \o Head(items)>> ELSE <<>>)
           \o concat_for_uris(website_url, Tail(items))

\* concat_website_url_and_uri_list_items, lines 235-238: the outer loop.
RECURSIVE concat_for_urls(_, _)
concat_for_urls(urls, items) ==
    IF urls = <<>> THEN <<>>
    ELSE concat_for_uris(Head(urls), items) \o concat_for_urls(Tail(urls), items)

\* The same with the loops nested the other way round.
RECURSIVE concat_UriMajor(_, _)
concat_UriMajor(urls, items) ==
    IF items = <<>> THEN <<>>
    ELSE (IF Head(items) # ""
          THEN [b \in 1..Len(urls) |-> urls[b] \o Head(items)] ELSE <<>>)
           \o concat_UriMajor(urls, Tail(items))

\* The same keeping the empty lines.
RECURSIVE concat_KeepBlank(_, _)
concat_KeepBlank(urls, items) ==
    IF urls = <<>> THEN <<>>
    ELSE [r \in 1..Len(items) |-> Head(urls) \o items[r]]
           \o concat_KeepBlank(Tail(urls), items)

\* The same returning the base URLs when there is no relative URI.
concat_BasesWhenNoUri(urls, items) ==
    IF items = <<>> THEN urls ELSE concat_for_urls(urls, items)

\* concat_website_url_and_uri_list_items, lines 231-239.
concat_website_url_and_uri_list_items(urls, items) ==
    IF urls = <<>> \/ items = <<>> THEN <<>>
    ELSE concat_for_urls(urls, items)

\* check_website.py, check_website_uri_list, lines 69-81: read the
\* Variables, fail without a website URL (the PROC directory of the DagRun
\* is made when it is missing).
DagStart ==
    /\ entry = "dag"
    /\ tpc = "start"
    /\ gerapadrao_id_items' = VariableGet(GERAPADRAO_ID_FOR_URI_LIST)
    /\ website_url_list' = VariableGet(WEBSITE_URL_LIST)
    /\ IF no_website_url(website_url_list')
       THEN exc' = "ValueError" /\ tpc' = "raised"
       ELSE exc' = exc /\ tpc' = "loop"
    /\ UNCHANGED <<entry, WEBSITE_URL_LIST, GERAPADRAO_ID_FOR_URI_LIST,
                   xc_files, proc_files, g, file_path, lines_read,
                   website_uri_list, logged, proc0, read_ids, copied_ids>>
    /\ UNCHANGED <<proberVars, spsVars>>

\* check_website.py, lines 83-89 and get_uri_list_file_path, lines 42-62:
\* the PROC file is copied from XC when it is not there (shutil.copy raises
\* FileNotFoundError when the XC file is missing), else kept.
GetUriListFilePath ==
    /\ entry = "dag"
    /\ tpc = "loop"
    /\ g <= Len(gerapadrao_id_items)
    /\ LET id == gerapadrao_id_items[g]
       IN IF must_copy(proc_files[id])
          THEN IF xc_files[id].exists
               THEN /\ proc_files' = [proc_files EXCEPT ![id] = xc_files[id]]
                    /\ copied_ids' = Append(copied_ids, id)
                    /\ file_path' = id
                    /\ tpc' = "read"
                    /\ exc' = exc
               ELSE /\ exc' = "FileNotFoundError"
                    /\ tpc' = "raised"
                    /\ UNCHANGED <<proc_files, copied_ids, file_path>>
          ELSE /\ file_path' = id
               /\ tpc' = "read"
               /\ UNCHANGED <<proc_files, copied_ids, exc>>
    /\ UNCHANGED <<entry, WEBSITE_URL_LIST, GERAPADRAO_ID_FOR_URI_LIST,
                   xc_files, website_url_list, gerapadrao_id_items, g,
                   lines_read, website_uri_list, logged, proc0, read_ids>>
    /\ UNCHANGED <<proberVars, spsVars>>

\* check_website_operations.py, check_website_uri_list, lines 198-203.
OpsValidate ==
    /\ entry = "ops"
    /\ tpc = "start"
    /\ IF no_website_url(website_url_list)
       THEN exc' = "ValueError" /\ tpc' = "raised"
       ELSE exc' = exc /\ tpc' = "read"
    /\ UNCHANGED <<entry, WEBSITE_URL_LIST, GERAPADRAO_ID_FOR_URI_LIST,
                   xc_files, proc_files, website_url_list,
                   gerapadrao_id_items, g, file_path, lines_read,
                   website_uri_list, logged, proc0, read_ids, copied_ids>>
    /\ UNCHANGED <<proberVars, spsVars>>

\* read_file, lines 225-228 (called at check_website.py line 96 and at
\* check_website_operations.py line 205): open raises FileNotFoundError.
ReadFile ==
    /\ tpc = "read"
    /\ IF proc_files[file_path].exists
       THEN /\ lines_read' = proc_files[file_path].lines
            /\ read_ids' = Append(read_ids, file_path)
            /\ tpc' = "concat"
            /\ exc' = exc
       ELSE /\ exc' = "FileNotFoundError"
            /\ tpc' = "raised"
            /\ UNCHANGED <<lines_read, read_ids>>
    /\ UNCHANGED <<entry, WEBSITE_URL_LIST, GERAPADRAO_ID_FOR_URI_LIST,
                   xc_files, proc_files, website_url_list,
                   gerapadrao_id_items, g, file_path, website_uri_list,
                   logged, proc0, copied_ids>>
    /\ UNCHANGED <<proberVars, spsVars>>

\* The call of concat_website_url_and_uri_list_items: check_website.py
\* lines 100-101, check_website_operations.py lines 207-208, or on its own.
Concat ==
    /\ tpc = "concat"
    /\ website_uri_list' =
         concat_website_url_and_uri_list_items(website_url_list, lines_read)
    /\ tpc' = CASE entry = "dag" -> "check"
                [] entry = "ops" -> "probe"
                [] OTHER -> "done"
    /\ UNCHANGED <<entry, WEBSITE_URL_LIST, GERAPADRAO_ID_FOR_URI_LIST,
                   xc_files, proc_files, website_url_list,
                   gerapadrao_id_items, g, file_path, lines_read, exc, logged,
                   proc0, read_ids, copied_ids>>
    /\ UNCHANGED <<proberVars, spsVars>>

\* check_website.py, line 104: check_website_operations.check_website_uri_list
\* is called with one positional argument; it has two required parameters
\* (check_website_operations.py line 189), so the call raises TypeError
\* before the body of the function runs.
DagCheck ==
    /\ entry = "dag"
    /\ tpc = "check"
    /\ exc' = "TypeError"
    /\ tpc' = "raised"
    /\ UNCHANGED <<entry, WEBSITE_URL_LIST, GERAPADRAO_ID_FOR_URI_LIST,
                   xc_files, proc_files, website_url_list,
                   gerapadrao_id_items, g, file_path, lines_read,
                   website_uri_list, logged, proc0, read_ids, copied_ids>>
    /\ UNCHANGED <<proberVars, spsVars>>

\* check_website.py, line 107, after the loop:
\* Variable.set("GERAPADRAO_ID_FOR_URI_LIST", [], serialize_json=True).
DagReset ==
    /\ entry = "dag"
    /\ tpc = "loop"
    /\ loop_ended(g, gerapadrao_id_items)
    /\ GERAPADRAO_ID_FOR_URI_LIST' = SetTo(<<>>)
    /\ tpc' = "done"
    /\ UNCHANGED <<entry, WEBSITE_URL_LIST, xc_files, proc_files,
                   website_url_list, gerapadrao_id_items, g, file_path,
                   lines_read, website_uri_list, exc, logged, proc0, read_ids,
                   copied_ids>>
    /\ UNCHANGED <<proberVars, spsVars>>

\* check_website_operations.py, lines 210-212: check_uri_list is entered
\* with the built list.
OpsCheckUriList ==
    /\ entry = "ops"
    /\ tpc = "probe"
    /\ pc = "idle"
    /\ uri_list_items' = website_uri_list
    /\ pc' = "check_uri_list"
    /\ tpc' = "probing"
    /\ UNCHANGED <<function, i, failures, k, total_secs, available, response,
                   ret, result, first, reqAt, slept, allTransient, log,
                   probed, falsy, reported, terminal>>
    /\ UNCHANGED <<caller, function_arg, content, requested>>
    /\ UNCHANGED <<entry, WEBSITE_URL_LIST, GERAPADRAO_ID_FOR_URI_LIST,
                   xc_files, proc_files, website_url_list,
                   gerapadrao_id_items, g, file_path, lines_read,
                   website_uri_list, exc, logged, proc0, read_ids, copied_ids>>
    /\ UNCHANGED spsVars

\* check_website_operations.py, lines 214-222: the unavailable URIs are
\* logged and the function returns.
OpsReport ==
    /\ entry = "ops"
    /\ tpc = "probing"
    /\ pc = "returned"
    /\ logged' = result
    /\ tpc' = "done"
    /\ UNCHANGED <<entry, WEBSITE_URL_LIST, GERAPADRAO_ID_FOR_URI_LIST,
                   xc_files, proc_files, website_url_list,
                   gerapadrao_id_items, g, file_path, lines_read,
                   website_uri_list, exc, proc0, read_ids, copied_ids>>
    /\ UNCHANGED <<proberVars, spsVars>>

\* check_uri_list has not been entered.
ProberIdle ==
    /\ function \in Functions
    /\ uri_list_items = <<>>
    /\ i = 1
    /\ failures = <<>>
    /\ pc = "idle"
    /\ k = 0
    /\ total_secs = 0
    /\ available = False
    /\ response = False
    /\ ret = False
    /\ result = <<>>
    /\ first = False
    /\ reqAt = <<>>
    /\ slept = <<>>
    /\ allTransient = TRUE
    /\ log = <<>>
    /\ probed = {}
    /\ falsy = {}
    /\ reported = <<>>
    /\ terminal = {}
    /\ caller = "check_uri_list"
    /\ function_arg = "None"
    /\ content = ""
    /\ requested = <<>>

TaskLocalsInit ==
    /\ gerapadrao_id_items = <<>>
    /\ g = 1
    /\ lines_read = <<>>
    /\ website_uri_list = <<>>
    /\ exc = ""
    /\ logged = <<>>
    /\ proc0 = proc_files
    /\ read_ids = <<>>
    /\ copied_ids = <<>>

\* concat_website_url_and_uri_list_items called on its own.
InitConcat ==
    /\ ProberIdle
    /\ SpsIdle
    /\ entry = "concat"
    /\ tpc = "concat"
    /\ WEBSITE_URL_LIST = Unset
    /\ GERAPADRAO_ID_FOR_URI_LIST = Unset
    /\ xc_files = [d \in Ids |-> NoFile]
    /\ proc_files = [d \in Ids |-> NoFile]
    /\ website_url_list \in SeqsOver(BaseUrls, MaxBases)
    /\ file_path = ""
    /\ gerapadrao_id_items = <<>>
    /\ g = 1
    /\ lines_read \in SeqsOver(RelativeUris, MaxLines)
    /\ website_uri_list = <<>>
    /\ exc = ""
    /\ logged = <<>>
    /\ proc0 = proc_files
    /\ read_ids = <<>>
    /\ copied_ids = <<>>

\* The DAG task is about to run, or check_website_uri_list of
\* check_website_operations.py is about to be called with a path in PROC.
InitCall ==
    /\ ProberIdle
    /\ SpsIdle
    /\ tpc = "start"
    /\ \/ /\ entry = "dag"
          /\ WEBSITE_URL_LIST \in {Unset} \cup {SetTo(l) : l \in TaskWebsiteUrlLists}
          /\ GERAPADRAO_ID_FOR_URI_LIST \in {Unset} \cup {SetTo(l) : l \in TaskIdLists}
          /\ xc_files \in [Ids -> TaskFiles]
          /\ proc_files \in [Ids -> TaskFiles]
          /\ website_url_list = <<>>
          /\ file_path = ""
       \/ /\ entry = "ops"
          /\ WEBSITE_URL_LIST = Unset
          /\ GERAPADRAO_ID_FOR_URI_LIST = Unset
          /\ xc_files = [d \in Ids |-> NoFile]
          /\ proc_files \in [Ids -> TaskFiles]
          /\ website_url_list \in TaskWebsiteUrlLists
          /\ file_path \in Ids
    /\ TaskLocalsInit

\* Any of the three calls.
InitTask == InitCall \/ InitConcat

NextTask ==
    \/ DagStart \/ GetUriListFilePath \/ ReadFile \/ Concat \/ DagCheck
    \/ DagReset \/ OpsValidate \/ OpsCheckUriList \/ OpsReport
    \/ AccessUri \/ Sleep \/ RetryRequest \/ CheckResult \/ Return

SpecTask == InitTask /\ [][NextTask]_vars

NextConcat == Concat

SpecConcat == InitConcat /\ [][NextConcat]_vars

\* ======================================================= get_sps_packages
\* Longest scilista.
MaxScilista == 2

\* The names of the ZIP files of the model, in ascending order (the order
\* of sorted(), line 35).
PackageNames ==
    <<"2020_rba_v53n1.zip", "abc_v50.zip", "rba_2018nahead.zip", "rba_v53n1.zip">>

PackageNameSet == {PackageNames[n] : n \in 1..Len(PackageNames)}

\* What a file name matched by "*<acron>_<issue>.zip" can begin with.
NamePrefixes == {"", "2020_"}

\* The lines of a scilista file in the model.
ScilistaLines == {"rba v53n1", "rba 2018nahead", "abc v50", "rba"}

\* scilista_item.strip().split(), line 30.
split(item) ==
    CASE item = "rba v53n1" -> <<"rba", "v53n1">>
      [] item = "rba 2018nahead" -> <<"rba", "2018nahead">>
      [] item = "abc v50" -> <<"abc", "v50">>
      [] OTHER -> <<"rba">>

\* "*{}.zip".format("_".join(acron_issue)) without the leading "*", line 33.
filename_pattern(acron_issue) == acron_issue[1] \o "_" \o acron_issue[2] \o ".zip"

\* xc_dir_path.glob(filename_pattern), line 35: the names in the directory
\* that end with the pattern.
glob(dir, pattern) == {n \in dir : \E pre \in NamePrefixes : n = pre \o pattern}

\* sorted(...), line 35.
sorted(names) == SelectSeq(PackageNames, LAMBDA n : n \in names)

\* str(proc_dir_path / source.name), line 36.
ProcPath(name) == "proc/" \o name

\* os.path.isfile(str(proc_dir_path / source.name)), line 37.
in_proc_Never(name, dir) == FALSE
in_proc(name, dir) == name \in dir

\* get_sps_packages, lines 29-35 and 46-49: the next line of the scilista;
\* a line that has not two items is skipped, else the matching files of XC
\* are listed in sorted order.
SpsLine ==
    /\ spc = "lines"
    /\ line <= Len(scilista)
    /\ LET acron_issue == split(scilista[line])
           found == IF Len(acron_issue) # 2 THEN <<>>
                    ELSE sorted(glob(xc_dir, filename_pattern(acron_issue)))
       IN /\ sources' = found
          /\ IF found = <<>>
             THEN line' = line + 1 /\ spc' = "lines"
             ELSE line' = line /\ spc' = "sources"
    /\ UNCHANGED <<scilista, xc_dir, proc_dir, sps_packages_list, moved,
                   xc_dir0, proc_dir0, earlier>>
    /\ UNCHANGED <<proberVars, taskVars>>

\* get_sps_packages, lines 35-45: one matching file: its PROC path is
\* appended, and it is moved to PROC when it is not there and is in XC.
SpsSource ==
    /\ spc = "sources"
    /\ LET name == Head(sources)
       IN /\ sps_packages_list' = Append(sps_packages_list, ProcPath(name))
          /\ IF in_proc(name, proc_dir)
             THEN UNCHANGED <<xc_dir, proc_dir, moved>>
             ELSE IF name \in xc_dir
                  THEN /\ xc_dir' = xc_dir \ {name}
                       /\ proc_dir' = proc_dir \cup {name}
                       /\ moved' = Append(moved, name)
                  ELSE UNCHANGED <<xc_dir, proc_dir, moved>>
    /\ sources' = Tail(sources)
    /\ IF Tail(sources) = <<>>
       THEN line' = line + 1 /\ spc' = "lines"
       ELSE line' = line /\ spc' = "sources"
    /\ UNCHANGED <<scilista, xc_dir0, proc_dir0, earlier>>
    /\ UNCHANGED <<proberVars, taskVars>>

\* get_sps_packages, lines 51-52: return sps_packages_list.
SpsReturn ==
    /\ spc = "lines"
    /\ line > Len(scilista)
    /\ spc' = "returned"
    /\ UNCHANGED <<scilista, xc_dir, proc_dir, sps_packages_list, line,
                   sources, moved, xc_dir0, proc_dir0, earlier>>
    /\ UNCHANGED <<proberVars, taskVars>>

\* get_sps_packages is called (lines 22-28).
InitSps ==
    /\ ProberIdle
    /\ TaskIdle
    /\ scilista \in SeqsOver(ScilistaLines, MaxScilista)
    /\ xc_dir \in SUBSET PackageNameSet
    /\ proc_dir \in SUBSET PackageNameSet
    /\ sps_packages_list = <<>>
    /\ spc = "lines"
    /\ line = 1
    /\ sources = <<>>
    /\ moved = <<>>
    /\ xc_dir0 = xc_dir
    /\ proc_dir0 = proc_dir
    /\ earlier = <<>>

NextSps == SpsLine \/ SpsSource \/ SpsReturn

SpecSps == InitSps /\ [][NextSps]_vars

\* Most calls of get_sps_packages in a row.
MaxCalls == 2

\* get_sps_packages is called again (lines 22-28) with the same scilista
\* and the directories as the call before left them.
SpsCallAgain ==
    /\ spc = "returned"
    /\ Len(earlier) + 1 < MaxCalls
    /\ earlier' = Append(earlier, sps_packages_list)
    /\ sps_packages_list' = <<>>
    /\ spc' = "lines"
    /\ line' = 1
    /\ sources' = <<>>
    /\ moved' = <<>>
    /\ xc_dir0' = xc_dir
    /\ proc_dir0' = proc_dir
    /\ UNCHANGED <<scilista, xc_dir, proc_dir>>
    /\ UNCHANGED <<proberVars, taskVars>>

NextSpsAgain == SpsLine \/ SpsSource \/ SpsReturn \/ SpsCallAgain

SpecSpsAgain == InitSps /\ [][NextSpsAgain]_vars

\* ================================================================ claims
\* The history variables describe the URI at position Cur: the one being
\* probed, or, once check_uri_list went on, the one just recorded.
HasHistory == reqAt # <<>>
Cur == IF pc \in {"check_uri_list", "returned"} THEN i - 1 ELSE i
Decided == HasHistory /\ pc \in {"access_uri_returned", "check_uri_list", "returned"}
Recorded == HasHistory /\ pc \in {"check_uri_list", "returned"}
InReport(p) == \E j \in 1..Len(reported) : reported[j] = p
IsResponse(r) == r.cls # "False"

\* C1: when the first probe of a URI returns a response with status 429,
\* 500, 502, 503 or 504, no outcome is decided for the URI before at least
\* one wait and a second request to it have happened.
C1_TransientEntersRetry ==
    (Decided /\ IsResponse(first)
       /\ first.status_code \in {429, 500, 502, 503, 504})
      => (Len(slept) >= 1 /\ Len(reqAt) >= 2)

\* C2: whatever the probes answer, check_uri_list is never aborted: it
\* does not raise, and when it has returned every position of the list was
\* probed at least once.
C2_ErrorsIsolated ==
    /\ pc # "raised"
    /\ pc = "returned" => probed = 1..Len(uri_list_items)

\* C3: a URI whose first probe returns 200, 301 or 302 is AVAILABLE after
\* exactly one request: no wait, no retry, access_uri returns the response,
\* and the occurrence is not appended to the unavailable report.
C3_OkIsAvailableAtOnce ==
    (HasHistory /\ IsResponse(first) /\ first.status_code \in {200, 301, 302})
      => /\ pc \notin {"sleep", "request", "raised"}
         /\ Len(reqAt) = 1
         /\ slept = <<>>
         /\ ret = first /\ Truthy(ret)
         /\ ~InReport(Cur)
         /\ pc = "returned" => result = failures

C3_Witness ==
    /\ Recorded /\ function = "requests.head"
    /\ first.status_code = 302 /\ ~InReport(Cur) /\ Len(reqAt) = 1

\* C4: a URI whose first probe returns 503 is requested a second time at
\* least 5 time units after the first request, and when that first retry
\* returns 200 the URI is AVAILABLE and not in the unavailable report.
C4_RetryThenOk ==
    (Decided /\ IsResponse(first) /\ first.status_code = 503)
      => /\ Len(reqAt) >= 2
         /\ reqAt[2] - reqAt[1] >= 5
         /\ (Len(reqAt) = 2 /\ IsResponse(response) /\ response.status_code = 200)
              => (Truthy(ret) /\ ~InReport(Cur))

\* C5: a URI whose every probe returns a transient status is FAILED after
\* exactly 9 requests and 8 waits adding up to 1275, the final log entry
\* reports 1275, and the URI is in the unavailable report.
C5_ExhaustedIsFailed ==
    (Decided /\ allTransient)
      => /\ Len(reqAt) = 9
         /\ Len(slept) = 8
         /\ Sum(slept) = 1275
         /\ total_secs = 1275
         /\ log[Len(log)] = LogFinal(uri_list_items[Cur], response.status_code, 1275)
         /\ ~Truthy(ret)
         /\ Recorded => InReport(Cur)

\* C6: a transport failure on the first attempt gives FAILED at once: one
\* request, no wait, the connection error logged with the URI, and the URI
\* appended to the unavailable report.
C6_TransportFailureFirst ==
    (HasHistory /\ ~IsResponse(first))
      => /\ pc \notin {"sleep", "request", "raised"}
         /\ Len(reqAt) = 1
         /\ slept = <<>>
         /\ log = <<LogTransport(uri_list_items[Cur])>>
         /\ ~Truthy(ret)
         /\ Cur \in falsy
         /\ Recorded => (InReport(Cur) /\ failures[Len(failures)] = uri_list_items[Cur])
         /\ pc = "returned" => result = failures

C6_Witness ==
    /\ pc = "returned" /\ HasHistory /\ ~IsResponse(first)
    /\ InReport(Cur) /\ Len(reqAt) = 1

\* C7: a URI whose first probe returns a status outside {200, 301, 302} and
\* outside {429, 500, 502, 503, 504} is FAILED with no retry and no wait,
\* and the error entry with that status and the URI is logged.
C7_OtherStatusLogged ==
    (HasHistory /\ IsResponse(first)
       /\ first.status_code \notin {200, 301, 302}
       /\ first.status_code \notin {429, 500, 502, 503, 504})
      => /\ pc \notin {"sleep", "request", "raised"}
         /\ Len(reqAt) = 1
         /\ slept = <<>>
         /\ ~Truthy(ret)
         /\ log = <<LogStatus(uri_list_items[Cur], first.status_code)>>

\* C8: a transport failure on a retry ends the retries of the URI with
\* FAILED: wait_and_retry_to_access_uri returns a falsy value without
\* raising, and nothing more is waited or requested for the URI.
C8_TransportFailureOnRetry ==
    (Len(reqAt) >= 2 /\ ~IsResponse(response))
      => /\ pc \in {"access_uri_returned", "check_uri_list", "returned"}
         /\ ~Truthy(ret)

\* C9: the waits of a URI are the entries 5, 10, 20, 40, 80, 160, 320, 640
\* in order, without skipping or repeating, the k-th retry request comes
\* exactly the k-th entry after the request before it, and a retry request
\* is issued only after its wait.
C9_Schedule == <<5, 10, 20, 40, 80, 160, 320, 640>>

C9_FixedSchedule ==
    /\ Len(slept) <= 8
    /\ \A j \in 1..Len(slept) : slept[j] = C9_Schedule[j]
    /\ HasHistory =>
         /\ Len(reqAt) = (IF pc = "request" THEN Len(slept) ELSE Len(slept) + 1)
         /\ \A j \in 2..Len(reqAt) : reqAt[j] - reqAt[j - 1] = C9_Schedule[j - 1]
    /\ pc = "request" => (HasHistory /\ Len(slept) >= 1)

C9_Witness ==
    /\ pc = "access_uri_returned" /\ Len(reqAt) = 9 /\ Len(slept) = 8
    /\ slept[8] = 640

\* C10: the unavailable report is the sub-sequence of the input, in input
\* order, of exactly the occurrences for which access_uri returned a falsy
\* value; duplicates are probed and reported each on its own.
RECURSIVE C10_Ascending(_, _)
C10_Ascending(S, n) ==
    IF n = 0 THEN <<>>
    ELSE IF n \in S THEN Append(C10_Ascending(S, n - 1), n)
    ELSE C10_Ascending(S, n - 1)

C10_ReportIsFailedSubsequence ==
    /\ reported = C10_Ascending(falsy, i - 1)
    /\ Len(failures) = Len(reported)
    /\ \A j \in 1..Len(failures) : failures[j] = uri_list_items[reported[j]]
    /\ pc = "returned" =>
         /\ result = failures
         /\ probed = 1..Len(uri_list_items)
         /\ \A p \in 1..Len(uri_list_items) : InReport(p) <=> p \in falsy

C10_Witness ==
    /\ pc = "returned"
    /\ Len(uri_list_items) = 2 /\ uri_list_items[1] = uri_list_items[2]
    /\ falsy = {2} /\ result = <<uri_list_items[2]>>

\* C11: the URIs are probed one after the other: a position is requested
\* only when access_uri has returned for every position before it, and
\* while a URI is in its retry waits nothing after it has been requested.
C11_Sequential ==
    /\ \A j \in probed : \A p \in 1..(j - 1) : p \in terminal
    /\ pc \in {"sleep", "request"} =>
         (i \in probed /\ i \notin terminal /\ \A j \in probed : j <= i)

C11_Witness ==
    /\ pc = "request" /\ i = 2 /\ Len(slept) = 8 /\ Len(uri_list_items) = 3
    /\ probed = {1, 2} /\ terminal = {1}

\* C21: every probe terminates: a URI is requested at most 9 times and
\* waited for at most 8 times, no wait begins once the 8 delays are used up,
\* and, every request returning and every wait ending, check_uri_list
\* eventually returns its report.
C21_ProbeTerminates ==
    /\ [](/\ Len(reqAt) <= 9
          /\ Len(slept) <= 8
          /\ pc = "sleep" => Len(slept) < 8)
    /\ <>(pc = "returned")

\* C22: in the retry loop the first response whose status is not 429, 500,
\* 502, 503 or 504 is final: nothing more is waited or requested for the
\* URI, and the URI is AVAILABLE exactly when that status is 200, 301 or
\* 302 (a 404 on a retry gives FAILED, the remaining delays unused).
C22_FirstNonTransientFinal ==
    (Len(reqAt) >= 2 /\ IsResponse(response)
       /\ response.status_code \notin {429, 500, 502, 503, 504})
      => /\ pc \in {"access_uri_returned", "check_uri_list", "returned"}
         /\ Len(slept) = Len(reqAt) - 1
         /\ Truthy(ret) <=> response.status_code \in {200, 301, 302}
         /\ response.status_code \in {200, 301, 302} => ret = response
         /\ Recorded => (InReport(Cur) <=> response.status_code \notin {200, 301, 302})

C22_Witness ==
    /\ pc = "check_uri_list" /\ Len(reqAt) = 3 /\ Len(slept) = 2
    /\ response.status_code = 404 /\ IsResponse(response)
    /\ ~Truthy(ret) /\ InReport(Cur)

\* C24: in wait_and_retry_to_access_uri total_secs is the sum of the delays
\* of the retries started so far, one of 5, 15, 35, 75, 155, 315, 635, 1275
\* once the first wait began and never more than 1275, and there are as many
\* waits as retry requests (one more while the request after a wait is
\* still to be issued).
C24_Sums == <<5, 15, 35, 75, 155, 315, 635, 1275>>

C24_TotalSecs ==
    /\ total_secs <= 1275
    /\ total_secs = Sum(slept)
    /\ slept = <<>> => total_secs = 0
    /\ slept # <<>> => (Len(slept) <= 8 /\ total_secs = C24_Sums[Len(slept)])
    /\ (HasHistory /\ pc # "request") => Len(slept) = Len(reqAt) - 1
    /\ pc = "request" => Len(slept) = Len(reqAt)

C24_Witness ==
    /\ pc = "access_uri_returned" /\ total_secs = 1275
    /\ Len(slept) = 8 /\ Len(reqAt) = 9

\* C25: every request of a URI, the first one and each retry, calls the
\* function chosen for the URI, requests.head for check_uri_list (the
\* default) and requests.get for get_webpage_content, never another one, and
\* every request is given the timeout 10.
C25_SameFunction ==
    /\ Len(requested) = Len(reqAt)
    /\ \A j \in 1..Len(requested) :
         /\ requested[j].timeout = 10
         /\ requested[j].function = requested[1].function
         /\ caller = "check_uri_list" => requested[j].function = "requests.head"
         /\ caller = "get_webpage_content" => requested[j].function = "requests.get"

C25_Witness ==
    /\ caller = "get_webpage_content" /\ pc = "content_returned"
    /\ Len(requested) = 3 /\ requested[3].function = "requests.get"
    /\ content = "response.text"

\* ------------------------------------------------- claims on the task
\* What the call was given as website URL list.
GivenWebsiteUrlList ==
    IF entry = "dag" THEN VariableGet(WEBSITE_URL_LIST) ELSE website_url_list

\* The ids staged for the DAG task when it began.
StagedIds ==
    IF tpc = "start" THEN VariableGet(GERAPADRAO_ID_FOR_URI_LIST)
    ELSE gerapadrao_id_items

\* The URI list of id d was in PROC or in XC when the call began.
Staged(d) == proc0[d].exists \/ xc_files[d].exists

\* C12: with at least one website URL and a URI list file for every staged
\* id, the DAG task completes without raising, whatever the probes answer.
C12_RunSucceeds ==
    (entry = "dag" /\ GivenWebsiteUrlList # <<>>
       /\ \A n \in 1..Len(StagedIds) : Staged(StagedIds[n]))
      => (tpc # "raised" /\ pc # "raised" /\ exc = "")

\* C13: without a website URL (list empty or Variable not set) the DAG task
\* and check_website_operations.check_website_uri_list fail at once with
\* ValueError: no file was copied or read and no request was issued.
C13_NoWebsiteUrlFailsFirst ==
    (entry \in {"dag", "ops"} /\ GivenWebsiteUrlList = <<>> /\ tpc # "start")
      => /\ tpc = "raised" /\ exc = "ValueError"
         /\ read_ids = <<>> /\ copied_ids = <<>> /\ proc_files = proc0
         /\ lines_read = <<>>
         /\ pc = "idle" /\ probed = {} /\ reqAt = <<>>

C13_Witness ==
    /\ entry = "dag" /\ ~WEBSITE_URL_LIST.set /\ tpc = "raised"
    /\ exc = "ValueError" /\ gerapadrao_id_items = <<"id1", "id2">>
    /\ xc_files["id1"].exists /\ ~proc_files["id1"].exists

C13_WitnessOps ==
    /\ entry = "ops" /\ website_url_list = <<>> /\ tpc = "raised"
    /\ exc = "ValueError" /\ proc_files[file_path].exists

\* The positions of the entries of a list of lines that are not empty.
NonBlank(items) == {r \in 1..Len(items) : items[r] # ""}

\* C14: for non-empty arguments the result of
\* concat_website_url_and_uri_list_items has len(base_urls) times the number
\* of non-empty entries of relative_uris items.
C14_Length ==
    (entry = "concat" /\ tpc = "done"
       /\ website_url_list # <<>> /\ lines_read # <<>>)
      => Len(website_uri_list)
           = Len(website_url_list) * Cardinality(NonBlank(lines_read))

C14_Witness ==
    /\ entry = "concat" /\ tpc = "done"
    /\ website_url_list = <<"http://x", "http://y">>
    /\ lines_read = <<"/a", "", "/b">>
    /\ Len(website_uri_list) = 4

\* C15: the built list is in nested order: base 1 with every non-empty
\* relative URI in input order, then base 2, ..., each item being base
\* followed by relative; bases [http://x, http://y] and relatives [/a, /b]
\* give [http://x/a, http://x/b, http://y/a, http://y/b], and when exactly
\* the /b items fail the logged report is [http://x/b, http://y/b].
C15_Built == tpc \in {"check", "probe", "probing", "done"}
             \/ (tpc = "raised" /\ exc = "TypeError")

C15_NestedOrder ==
    LET nb == SelectSeq(lines_read, LAMBDA u : u # "")
        m == Len(nb)
    IN /\ C15_Built =>
            /\ Len(website_uri_list) = Len(website_url_list) * m
            /\ \A b \in 1..Len(website_url_list) : \A r \in 1..m :
                 website_uri_list[(b - 1) * m + r] = website_url_list[b] \o nb[r]
       /\ (C15_Built /\ website_url_list = <<"http://x", "http://y">>
             /\ nb = <<"/a", "/b">>)
            => /\ website_uri_list = <<"http://x/a", "http://x/b",
                                       "http://y/a", "http://y/b">>
               /\ (entry = "ops" /\ tpc = "done" /\ falsy = {2, 4})
                    => logged = <<"http://x/b", "http://y/b">>

C15_Witness ==
    /\ entry = "ops" /\ tpc = "done" /\ falsy = {2, 4}
    /\ website_url_list = <<"http://x", "http://y">>
    /\ lines_read = <<"/a", "/b">>
    /\ logged = <<"http://x/b", "http://y/b">>

\* C16: concat_website_url_and_uri_list_items returns the empty list when
\* the base URL list or the relative URI list is empty.
C16_EmptyArgument ==
    (entry = "concat" /\ tpc = "done"
       /\ (website_url_list = <<>> \/ lines_read = <<>>))
      => website_uri_list = <<>>

C16_Witness ==
    /\ entry = "concat" /\ tpc = "done"
    /\ Len(website_url_list) = 2 /\ lines_read = <<>>
    /\ website_uri_list = <<>>

\* C17: when get_uri_list_file_path returns, it returns the path in PROC of
\* the file of the id; a file that was not in PROC is the copy of the XC
\* file, a file that was in PROC is as it was, not copied again, whatever
\* XC holds; and that file is the one read.
C17_Returned ==
    /\ entry = "dag"
    /\ tpc \in {"read", "concat", "check"} \/ (tpc = "raised" /\ exc = "TypeError")

C17_ProcFileKept ==
    C17_Returned =>
      LET id == gerapadrao_id_items[g]
      IN /\ file_path = id
         /\ proc_files[id].exists
         /\ proc0[id].exists => (proc_files[id] = proc0[id] /\ copied_ids = <<>>)
         /\ ~proc0[id].exists =>
              (proc_files[id] = xc_files[id] /\ copied_ids = <<id>>)
         /\ \A d \in Ids \ {id} : proc_files[d] = proc0[d]
         /\ tpc # "read" => (read_ids = <<id>> /\ lines_read = proc_files[id].lines)

C17_Witness ==
    /\ C17_Returned /\ tpc = "concat"
    /\ proc0[file_path].exists /\ xc_files[file_path].exists
    /\ xc_files[file_path] # proc0[file_path]
    /\ lines_read = proc0[file_path].lines

\* C18: when the URI list file of a staged id is neither in PROC nor in XC,
\* the run fails with the error raised from get_uri_list_file_path, and no
\* request is issued.
C18_MissingFileFails ==
    (entry = "dag" /\ tpc \in {"done", "raised"} /\ GivenWebsiteUrlList # <<>>
       /\ \E n \in 1..Len(gerapadrao_id_items) : ~Staged(gerapadrao_id_items[n]))
      => (tpc = "raised" /\ exc = "FileNotFoundError" /\ probed = {})

\* C23: the DAG task changes the Variable GERAPADRAO_ID_FOR_URI_LIST only
\* by setting it to the empty list when the loop has gone through every
\* staged id and every one was read; a run that ended with an error left in
\* the Variable the ids it had read from it, and after a run that completed
\* the Variable holds the empty list.
C23_ResetOnlyAfterLoop ==
    /\ [][GERAPADRAO_ID_FOR_URI_LIST' # GERAPADRAO_ID_FOR_URI_LIST =>
           /\ entry = "dag" /\ exc = "" /\ tpc' = "done"
           /\ GERAPADRAO_ID_FOR_URI_LIST' = SetTo(<<>>)
           /\ g > Len(gerapadrao_id_items)
           /\ \A n \in 1..Len(gerapadrao_id_items) :
                \E q \in 1..Len(read_ids) : read_ids[q] = gerapadrao_id_items[n]]_vars
    /\ []((entry = "dag" /\ tpc = "raised")
            => VariableGet(GERAPADRAO_ID_FOR_URI_LIST) = gerapadrao_id_items)
    /\ []((entry = "dag" /\ tpc = "done")
            => GERAPADRAO_ID_FOR_URI_LIST = SetTo(<<>>))

C23_Witness ==
    /\ entry = "dag" /\ tpc = "raised" /\ exc = "FileNotFoundError"
    /\ gerapadrao_id_items = <<"id1", "id2">> /\ proc0["id2"].exists
    /\ GERAPADRAO_ID_FOR_URI_LIST = SetTo(<<"id1", "id2">>)

\* ---------------------------------------------- claims on get_sps_packages
\* Position of a PROC path in the ascending order of the package names.
PathRank(path) ==
    CHOOSE n \in 1..Len(PackageNames) : ProcPath(PackageNames[n]) = path

\* The names in XC, when get_sps_packages was called, that match a line of
\* the scilista.
Matching ==
    UNION {glob(xc_dir0, filename_pattern(split(scilista[n]))) :
             n \in {q \in 1..Len(scilista) : Len(split(scilista[q])) = 2}}

\* C19: the list returned by get_sps_packages is in ascending order of
\* package path whatever the order of the scilista lines, and it is empty
\* when no package file matches a scilista line.
C19_SortedPackages ==
    spc = "returned" =>
      /\ \A a \in 1..Len(sps_packages_list) : \A b \in a..Len(sps_packages_list) :
           PathRank(sps_packages_list[a]) <= PathRank(sps_packages_list[b])
      /\ Matching = {} => sps_packages_list = <<>>

\* C20: get_sps_packages moves a package only when it matches a scilista
\* line, is in XC and is not in PROC; a package in PROC is never moved over,
\* and no package is moved twice.
C20_MovesOnlyWhenNeeded ==
    /\ \A n \in 1..Len(moved) :
         /\ moved[n] \in Matching
         /\ moved[n] \in xc_dir0
         /\ moved[n] \notin proc_dir0
         /\ \A q \in 1..Len(moved) : moved[q] = moved[n] => q = n
    /\ proc_dir = proc_dir0 \cup {moved[n] : n \in 1..Len(moved)}
    /\ xc_dir = xc_dir0 \ {moved[n] : n \in 1..Len(moved)}
    /\ Matching = {} => moved = <<>>
    /\ spc = "returned" => {moved[n] : n \in 1..Len(moved)} = Matching \ proc_dir0

C20_Witness ==
    /\ spc = "returned"
    /\ scilista = <<"rba v53n1", "rba v53n1">>
    /\ moved = <<"2020_rba_v53n1.zip">>
    /\ "rba_v53n1.zip" \in xc_dir /\ "rba_v53n1.zip" \in proc_dir0
    /\ "abc_v50.zip" \in xc_dir

\* C26: every path of the list returned by get_sps_packages names a file
\* that is in PROC; every path comes from a scilista line of two items, the
\* other lines giving nothing; and a call after the packages were moved
\* returns the list the call before returned.
C26_SameListAgain ==
    spc = "returned" =>
      /\ \A n \in 1..Len(sps_packages_list) :
           /\ \E name \in proc_dir : sps_packages_list[n] = ProcPath(name)
           /\ \E name \in Matching : sps_packages_list[n] = ProcPath(name)
      /\ \A c \in 1..Len(earlier) : sps_packages_list = earlier[c]

====
